---- MODULE Spec2Model ----
(***************************************************************************)
(* mqtt-logger: the SQLite event store (mqtt_logger/database.py), the      *)
(* Recorder and the Playback (mqtt_logger/logger.py).                      *)
(*                                                                         *)
(* Three groups of state share this module:                                *)
(*   - the store: the RUN and LOG relations and the wall clock;            *)
(*   - one Recorder: its fields, the position of the caller inside         *)
(*     start()/stop() and of the transport thread inside _on_message;      *)
(*   - one Playback: its replay set, the gather future, the emission       *)
(*     tasks and the position of the caller inside play()/_publish.        *)
(* SpecDb drives the store through the functions of database.py alone,     *)
(* Spec drives a Recorder, SpecSched and SpecPlay drive a Playback.        *)
(***************************************************************************)
EXTENDS Integers, Sequences, FiniteSets, TLC

(***************************************************************************)
(* Bounds of the model.                                                    *)
(***************************************************************************)
\* the wall clock runs from 0 to MaxTime
MaxTime == 1
\* at most MaxRuns rows in RUN
MaxRuns == 2
\* at most MaxLog rows in LOG
MaxLog == 1
\* a store a Recorder is opened on holds at most MaxPriorRuns earlier runs
MaxPriorRuns == 1
\* the transport delivers at most MaxDeliveries messages to a Recorder
MaxDeliveries == 2
\* a store a Playback is opened on holds at most MaxEntries LOG rows
MaxEntries == 2
\* their timestamps are 0 .. MaxStamp when only the schedule is computed,
MaxStamp == 5
\* and 0 .. MaxPlayStamp when the replay itself is run
MaxPlayStamp == 1
\* play() is called at most MaxPlays times on a Playback
MaxPlays == 2
MaxPatternLen == 5
MaxFilters == 2

(***************************************************************************)
(* Optional values: Python's None is the empty set, a value v is {v}.      *)
(***************************************************************************)
None == {}

Some(v) == {v}

The(o) == CHOOSE v \in o : TRUE

MaxOf(S) == CHOOSE x \in S : \A y \in S : y <= x

MinOf(S) == CHOOSE x \in S : \A y \in S : x <= y

\* topics and topic patterns are strings, modelled as sequences of characters
Topics == {<<"t", "/", "1">>, <<"t", "/", "2">>}

Payloads == {"x", "y"}

VARIABLES
    \* ---- the store (database.py) ----
    runs,        \* RUN: ID -> [start, end]; end is None while NULL
    log,         \* LOG in ID order: [run_id, unix_time, topic, message]
    now,         \* time.time()
    \* ---- what the caller of database.py observed ----
    nStartCalls, \* number of start_run_entry calls made
    lastRet,     \* value returned by the latest start_run_entry
    endCalled,   \* ids of the runs stop_run_entry has been executed for
    dbErr,       \* exception raised by the latest database.py call ("" if none)
    warnings,    \* number of logging.warning diagnostics of insert_log_entry
    dbCall,      \* the latest database.py call: [op, run_id, topic, message]
    \* ---- the Recorder (logger.py, class Recorder) ----
    recording,   \* self._recording
    run_id,      \* self._run_id
    conOpen,     \* self._con has not been closed
    loopAlive,   \* the transport's network thread (loop_start .. loop_stop)
    mainPc,      \* where the caller's thread is inside start() / stop()
    mainErr,     \* exception raised by the latest start() / stop() ("" if none)
    mainErrs,    \* every exception start() / stop() has raised so far
    lastCall,    \* the latest Recorder method called
    callToggle,  \* flips on every call of start() / stop()
    lastStarted, \* run id returned to the most recent successful start()
    cbPc,        \* where the transport thread is inside _on_message
    cbMsg,       \* the message _on_message is handling
    cbOutcome,   \* what the latest _on_message did with its message
    cbErrors,    \* exceptions _on_message caught and logged (line 137)
    delivered,   \* number of messages the transport has delivered
    \* ---- the Playback (logger.py, class Playback) ----
    pbTopics,        \* the topics argument of __init__
    log_data,        \* self._log_data: the replay set
    publish_task,    \* self._publish_task: "None", or the gather future's state
    cancelRequested, \* the gather future's _cancel_requested
    tasks,           \* the _publish_aux task of each entry of log_data
    start_unix_time, \* start_unix_time of the running _publish
    speed,           \* speed of the latest play(), a rational <<num, den>>
    playPc,          \* where the caller's thread is inside play() / _publish
    playResult,      \* how the latest play() ended
    nPlays,          \* number of play() calls made
    published,       \* what the running play() has published, in order
    pubErrors,       \* publish exceptions the running play() caught (line 287)
    stopResult,      \* what the latest Playback.stop() did
    stoppedInFlight, \* stop() was called since the latest play() was called
    \* ---- the schema of a database file (create_tables, tables_exist) ----
    tables,      \* names of the rows of sqlite_master with type = 'table'
    existsRet,   \* value returned by the latest tables_exist (None if it raised)
    schemaErr,   \* exception raised by the latest schema operation ("" if none)
    schemaCall,  \* the latest schema operation
    \* ---- a call of _mqtt_pattern_to_sql_pattern ----
    tPattern,    \* its argument mqtt_pattern
    tResult,     \* the sql_pattern it returned (None before the call)
    \* ---- a call of retrieve_log_entries ----
    qPatterns,   \* its patterns argument: None, or a list of LIKE patterns
    qResult,     \* the list it returned (None before the call, or if it raised)
    qErr         \* the exception it raised ("" if none)

dbVars == <<runs, log, now, nStartCalls, lastRet, endCalled, dbErr, warnings, dbCall>>

recVars == <<recording, run_id, conOpen, loopAlive, mainPc, mainErr, mainErrs, lastCall,
             callToggle, lastStarted, cbPc, cbMsg, cbOutcome, cbErrors, delivered>>

playVars == <<pbTopics, log_data, publish_task, cancelRequested, tasks,
              start_unix_time, speed, playPc, playResult, nPlays, published,
              pubErrors, stopResult, stoppedInFlight>>

schemaVars == <<tables, existsRet, schemaErr, schemaCall>>

translateVars == <<tPattern, tResult>>

queryVars == <<qPatterns, qResult, qErr>>

fnVars == <<schemaVars, translateVars, queryVars>>

vars == <<dbVars, recVars, playVars, fnVars>>

(***************************************************************************)
(* database.py as operators on the relations.                              *)
(***************************************************************************)
\* row ids counted from 0
lastrowid_ZeroBased(rs) == Cardinality(DOMAIN rs)

\* RUN.ID is INTEGER PRIMARY KEY: SQLite gives a new row the largest ROWID
\* in the table plus one, 1 in an empty table; cur.lastrowid reports it.
lastrowid(rs) == IF DOMAIN rs = {} THEN 1 ELSE MaxOf(DOMAIN rs) + 1

run_ids(rs) == DOMAIN rs

\* INSERT INTO RUN (START_UNIX_TIME) VALUES (time.time())
start_run_entry(rs, t) ==
    [id \in DOMAIN rs \cup {lastrowid(rs)} |->
        IF id \in DOMAIN rs THEN rs[id] ELSE [start |-> t, end |-> None]]

\* the UPDATE without its WHERE clause
stop_run_entry_NoWhere(rs, id, t) ==
    [r \in DOMAIN rs |-> [rs[r] EXCEPT !.end = Some(t)]]

\* UPDATE RUN SET START_UNIX_TIME = t, END_UNIX_TIME = t WHERE ROWID = run_id
stop_run_entry_BothStamps(rs, id, t) ==
    [r \in DOMAIN rs |-> IF r = id THEN [start |-> t, end |-> Some(t)] ELSE rs[r]]

\* UPDATE RUN SET END_UNIX_TIME = time.time() WHERE ROWID = run_id
stop_run_entry(rs, id, t) ==
    [r \in DOMAIN rs |-> IF r = id THEN [rs[r] EXCEPT !.end = Some(t)] ELSE rs[r]]

\* INSERT INTO LOG (UNIX_TIME, TOPIC, MESSAGE, RUN_ID) VALUES (time.time(), ?, ?, ?)
insert_log_entry(lg, topic, message, id, t) ==
    Append(lg, [run_id |-> id, unix_time |-> t, topic |-> topic, message |-> message])

(***************************************************************************)
(* The store driven directly, as tests/test_database.py drives it.         *)
(***************************************************************************)
\* database.py has not been called by the caller yet
NoCall == [op |-> "", run_id |-> None, topic |-> <<>>, message |-> ""]

\* run identifiers a caller may pass: existing ones and ones that do not exist
IdArgs == 1 .. MaxRuns

\* a store right after create_tables, before any call
EmptyStore ==
    /\ runs = <<>>
    /\ log = <<>>
    /\ now = 0
    /\ nStartCalls = 0
    /\ lastRet = None
    /\ endCalled = {}
    /\ dbErr = ""
    /\ warnings = 0
    /\ dbCall = NoCall

\* a Recorder right after __init__ (lines 82-112): connection open, no run id,
\* not recording, network thread started
RecorderConstructed ==
    /\ recording = FALSE
    /\ run_id = None
    /\ conOpen = TRUE
    /\ loopAlive = TRUE
    /\ mainPc = "idle"
    /\ mainErr = ""
    /\ mainErrs = {}
    /\ lastCall = ""
    /\ callToggle = FALSE
    /\ lastStarted = None
    /\ cbPc = "idle"
    /\ cbMsg = None
    /\ cbOutcome = ""
    /\ cbErrors = {}
    /\ delivered = 0

\* no Playback has been constructed
NoPlayback ==
    /\ pbTopics = <<>>
    /\ log_data = <<>>
    /\ publish_task = "None"
    /\ cancelRequested = FALSE
    /\ tasks = <<>>
    /\ start_unix_time = None
    /\ speed = <<1, 1>>
    /\ playPc = "idle"
    /\ playResult = ""
    /\ nPlays = 0
    /\ published = <<>>
    /\ pubErrors = 0
    /\ stopResult = ""
    /\ stoppedInFlight = FALSE

\* a database file without tables, no schema operation made
NoSchema ==
    /\ tables = {}
    /\ existsRet = None
    /\ schemaErr = ""
    /\ schemaCall = ""

\* _mqtt_pattern_to_sql_pattern has not been called
NoTranslation ==
    /\ tPattern = <<>>
    /\ tResult = None

\* retrieve_log_entries has not been called
NoQuery ==
    /\ qPatterns = None
    /\ qResult = None
    /\ qErr = ""

InitDb ==
    /\ EmptyStore
    /\ RecorderConstructed
    /\ NoPlayback
    /\ NoSchema /\ NoTranslation /\ NoQuery

Tick ==
    /\ now < MaxTime
    /\ now' = now + 1
    /\ UNCHANGED <<runs, log, nStartCalls, lastRet, endCalled, dbErr, warnings, dbCall>>

CallStartRunEntry ==
    /\ Cardinality(DOMAIN runs) < MaxRuns
    /\ runs' = start_run_entry(runs, now)
    /\ lastRet' = Some(lastrowid(runs))
    /\ nStartCalls' = nStartCalls + 1
    /\ dbErr' = ""
    /\ dbCall' = [NoCall EXCEPT !.op = "start_run_entry"]
    /\ UNCHANGED <<log, now, endCalled, warnings>>

CallStopRunEntry(arg) ==
    /\ dbCall' = [NoCall EXCEPT !.op = "stop_run_entry", !.run_id = arg]
    /\ IF arg = None
       THEN /\ dbErr' = "ValueError"
            /\ UNCHANGED <<runs, log, now, nStartCalls, lastRet, endCalled, warnings>>
       ELSE /\ runs' = stop_run_entry(runs, The(arg), now)
            /\ endCalled' = endCalled \cup (arg \cap run_ids(runs))
            /\ dbErr' = ""
            /\ UNCHANGED <<log, now, nStartCalls, lastRet, warnings>>

\* insert_log_entry with the store's foreign reference enforced: a run id that
\* does not exist is rejected
CallInsertLogEntry_Enforced(topic, message, arg) ==
    /\ dbCall' = [op |-> "insert_log_entry", run_id |-> arg,
                  topic |-> topic, message |-> message]
    /\ IF arg = None \/ The(arg) \notin run_ids(runs)
       THEN /\ dbErr' = IF arg = None THEN "ValueError" ELSE "sqlite3.IntegrityError"
            /\ UNCHANGED <<runs, log, now, nStartCalls, lastRet, endCalled, warnings>>
       ELSE /\ Len(log) < MaxLog
            /\ log' = insert_log_entry(log, topic, message, The(arg), now)
            /\ dbErr' = ""
            /\ UNCHANGED <<runs, now, nStartCalls, lastRet, endCalled, warnings>>

CallInsertLogEntry(topic, message, arg) ==
    /\ dbCall' = [op |-> "insert_log_entry", run_id |-> arg,
                  topic |-> topic, message |-> message]
    /\ IF arg = None
       THEN /\ dbErr' = "ValueError"
            /\ UNCHANGED <<runs, log, now, nStartCalls, lastRet, endCalled, warnings>>
       ELSE /\ Len(log) < MaxLog
            /\ warnings' = IF The(arg) \in run_ids(runs) THEN warnings ELSE warnings + 1
            /\ log' = insert_log_entry(log, topic, message, The(arg), now)
            /\ dbErr' = ""
            /\ UNCHANGED <<runs, now, nStartCalls, lastRet, endCalled>>

NextDb ==
    \/ Tick /\ UNCHANGED <<recVars, playVars, fnVars>>
    \/ CallStartRunEntry /\ UNCHANGED <<recVars, playVars, fnVars>>
    \/ \E arg \in {None} \cup {Some(i) : i \in IdArgs} :
          CallStopRunEntry(arg) /\ UNCHANGED <<recVars, playVars, fnVars>>
    \/ \E topic \in Topics, arg \in {None} \cup {Some(i) : i \in IdArgs} :
          CallInsertLogEntry(topic, "x", arg) /\ UNCHANGED <<recVars, playVars, fnVars>>

SpecDb == InitDb /\ [][NextDb]_vars

(***************************************************************************)
(* The schema of a database file: create_tables and tables_exist, driven   *)
(* as test_tables_exist drives them, with tables created one at a time.    *)
(***************************************************************************)
LOGGER_TABLE_NAME == "LOG"

RUNS_TABLE_NAME == "RUN"

\* names of the tables a database file may hold: the two of the logger and
\* tables that have nothing to do with it
TableNames == {LOGGER_TABLE_NAME, RUNS_TABLE_NAME, "rand", "other"}

\* tables_exist always comparing equal at line 53, so that it never raises
tables_exist_raises_Never(tbls) == FALSE

\* lines 50-53: log_exists != run_exists
tables_exist_raises(tbls) ==
    LET log_exists == LOGGER_TABLE_NAME \in tbls
        run_exists == RUNS_TABLE_NAME \in tbls
    IN  log_exists # run_exists

\* line 58: return log_exists
tables_exist(tbls) ==
    LET log_exists == LOGGER_TABLE_NAME \in tbls
    IN  log_exists

\* cur.execute("CREATE TABLE name (ID INTEGER PRIMARY KEY);")
ExecCreateTable(name) ==
    /\ schemaCall' = "execute"
    /\ IF name \in tables
       THEN /\ schemaErr' = "sqlite3.OperationalError"
            /\ UNCHANGED tables
       ELSE /\ schemaErr' = ""
            /\ tables' = tables \cup {name}
    /\ UNCHANGED existsRet

\* create_tables: CREATE TABLE LOG, then CREATE TABLE RUN; the first statement
\* that names an existing table raises and ends the call
CallCreateTables ==
    /\ schemaCall' = "create_tables"
    /\ IF LOGGER_TABLE_NAME \in tables
       THEN /\ schemaErr' = "sqlite3.OperationalError"
            /\ UNCHANGED tables
       ELSE IF RUNS_TABLE_NAME \in tables
            THEN /\ schemaErr' = "sqlite3.OperationalError"
                 /\ tables' = tables \cup {LOGGER_TABLE_NAME}
            ELSE /\ schemaErr' = ""
                 /\ tables' = tables \cup {LOGGER_TABLE_NAME, RUNS_TABLE_NAME}
    /\ UNCHANGED existsRet

CallTablesExist ==
    /\ schemaCall' = "tables_exist"
    /\ IF tables_exist_raises(tables)
       THEN /\ schemaErr' = "RuntimeError"
            /\ existsRet' = None
       ELSE /\ schemaErr' = ""
            /\ existsRet' = Some(tables_exist(tables))
    /\ UNCHANGED tables

InitSchema ==
    /\ NoSchema
    /\ EmptyStore
    /\ RecorderConstructed
    /\ NoPlayback
    /\ NoTranslation /\ NoQuery

NextSchema ==
    \/ \E name \in TableNames :
          ExecCreateTable(name)
          /\ UNCHANGED <<dbVars, recVars, playVars, translateVars, queryVars>>
    \/ CallCreateTables
          /\ UNCHANGED <<dbVars, recVars, playVars, translateVars, queryVars>>
    \/ CallTablesExist
          /\ UNCHANGED <<dbVars, recVars, playVars, translateVars, queryVars>>

SpecSchema == InitSchema /\ [][NextSchema]_vars

(***************************************************************************)
(* The Recorder.  start() and stop() run on the caller's thread, one call  *)
(* at a time; _on_message runs on the transport's network thread, which    *)
(* __init__ starts (loop_start, line 112) and stop() ends (loop_stop,      *)
(* line 160).  A thread switch can fall between any two statements, so     *)
(* every statement that reads or writes a field the other thread uses is   *)
(* a step of its own.                                                      *)
(***************************************************************************)
Messages == [topic : Topics, payload : Payloads]

\* what the caller's observations of database.py are left as by the Recorder
RecDbObs == <<nStartCalls, lastRet, endCalled, dbErr, warnings, dbCall>>

\* a store a Recorder is constructed on: fresh, or reused with earlier,
\* finished runs in it ("Tables already exist, mqtt_logger will append")
PriorStore(n) ==
    /\ runs = [id \in 1 .. n |-> [start |-> 0, end |-> Some(0)]]
    /\ log = <<>>
    /\ now = 0
    /\ nStartCalls = 0
    /\ lastRet = None
    /\ endCalled = {}
    /\ dbErr = ""
    /\ warnings = 0
    /\ dbCall = NoCall

InitRec ==
    /\ \E n \in 0 .. MaxPriorRuns : PriorStore(n)
    /\ RecorderConstructed
    /\ NoPlayback
    /\ NoSchema /\ NoTranslation /\ NoQuery

\* start() without its guard of line 142
Start_NoGuard ==
    /\ mainPc = "idle"
    /\ conOpen
    /\ lastCall' = "start"
    /\ callToggle' = ~callToggle
    /\ Cardinality(DOMAIN runs) < MaxRuns
    /\ runs' = start_run_entry(runs, now)
    /\ run_id' = Some(lastrowid(runs))
    /\ lastStarted' = Some(lastrowid(runs))
    /\ mainErr' = ""
    /\ mainPc' = "start_146"
    /\ UNCHANGED <<log, now, RecDbObs, recording, conOpen, loopAlive, mainErrs,
                   cbPc, cbMsg, cbOutcome, cbErrors, delivered>>

\* start(), lines 142-145: the guard, then start_run_entry and the
\* assignment of self._run_id (nothing reads _run_id while _recording is False)
Start ==
    /\ mainPc = "idle"
    /\ lastCall' = "start"
    /\ callToggle' = ~callToggle
    /\ IF recording
       THEN /\ mainErr' = "RuntimeError: Already recording, please stop first"
            /\ UNCHANGED <<runs, run_id, lastStarted, mainPc>>
       ELSE IF ~conOpen
       THEN \* start_run_entry on a closed connection: con.cursor() raises
            /\ mainErr' = "sqlite3.ProgrammingError"
            /\ UNCHANGED <<runs, run_id, lastStarted, mainPc>>
       ELSE /\ Cardinality(DOMAIN runs) < MaxRuns
            /\ runs' = start_run_entry(runs, now)
            /\ run_id' = Some(lastrowid(runs))
            /\ lastStarted' = Some(lastrowid(runs))
            /\ mainErr' = ""
            /\ mainPc' = "start_146"
    /\ mainErrs' = IF mainErr' = "" THEN mainErrs ELSE mainErrs \cup {mainErr'}
    /\ UNCHANGED <<log, now, RecDbObs, recording, conOpen, loopAlive,
                   cbPc, cbMsg, cbOutcome, cbErrors, delivered>>

\* start(), line 146: self._recording = True
StartSetRecording ==
    /\ mainPc = "start_146"
    /\ recording' = TRUE
    /\ mainPc' = "idle"
    /\ UNCHANGED <<dbVars, run_id, conOpen, loopAlive, mainErr, mainErrs, lastCall, callToggle,
                   lastStarted, cbPc, cbMsg, cbOutcome, cbErrors, delivered>>

\* stop(), lines 153-156: the guard, then stop_run_entry(self._con, self._run_id)
Stop ==
    /\ mainPc = "idle"
    /\ lastCall' = "stop"
    /\ callToggle' = ~callToggle
    /\ IF ~recording
       THEN /\ mainErr' = "RuntimeError: Not recording, please start first"
            /\ UNCHANGED <<runs, mainPc>>
       ELSE IF run_id = None
       THEN /\ mainErr' = "ValueError: run_id must be provided."
            /\ UNCHANGED <<runs, mainPc>>
       ELSE /\ runs' = stop_run_entry(runs, The(run_id), now)
            /\ mainErr' = ""
            /\ mainPc' = "stop_157"
    /\ mainErrs' = IF mainErr' = "" THEN mainErrs ELSE mainErrs \cup {mainErr'}
    /\ UNCHANGED <<log, now, RecDbObs, recording, run_id, conOpen, loopAlive,
                   lastStarted, cbPc, cbMsg, cbOutcome, cbErrors, delivered>>

\* stop() without the assignment of line 157: self._run_id keeps its value
StopClearRunId_Keeps ==
    /\ mainPc = "stop_157"
    /\ mainPc' = "stop_158"
    /\ UNCHANGED <<dbVars, recording, run_id, conOpen, loopAlive, mainErr, mainErrs, lastCall,
                   callToggle, lastStarted, cbPc, cbMsg, cbOutcome, cbErrors, delivered>>

\* stop(), line 157: self._run_id = None
StopClearRunId ==
    /\ mainPc = "stop_157"
    /\ run_id' = None
    /\ mainPc' = "stop_158"
    /\ UNCHANGED <<dbVars, recording, conOpen, loopAlive, mainErr, mainErrs, lastCall, callToggle,
                   lastStarted, cbPc, cbMsg, cbOutcome, cbErrors, delivered>>

\* stop(), line 158: self._recording = False
StopClearRecording ==
    /\ mainPc = "stop_158"
    /\ recording' = FALSE
    /\ mainPc' = "stop_160"
    /\ UNCHANGED <<dbVars, run_id, conOpen, loopAlive, mainErr, mainErrs, lastCall, callToggle,
                   lastStarted, cbPc, cbMsg, cbOutcome, cbErrors, delivered>>

\* stop(), line 160: self._client.loop_stop() joins the network thread, so it
\* returns only once a callback that is running has returned
StopLoopStop ==
    /\ mainPc = "stop_160"
    /\ cbPc = "idle"
    /\ loopAlive' = FALSE
    /\ mainPc' = "stop_162"
    /\ UNCHANGED <<dbVars, recording, run_id, conOpen, mainErr, mainErrs, lastCall, callToggle,
                   lastStarted, cbPc, cbMsg, cbOutcome, cbErrors, delivered>>

\* stop(), line 162: self._con.close()
StopCloseCon ==
    /\ mainPc = "stop_162"
    /\ conOpen' = FALSE
    /\ mainPc' = "idle"
    /\ UNCHANGED <<dbVars, recording, run_id, loopAlive, mainErr, mainErrs, lastCall, callToggle,
                   lastStarted, cbPc, cbMsg, cbOutcome, cbErrors, delivered>>

\* _on_message without its test of self._recording
OnMessageCheck_NoGuard(msg) ==
    /\ loopAlive
    /\ cbPc = "idle"
    /\ delivered < MaxDeliveries
    /\ delivered' = delivered + 1
    /\ cbPc' = "insert"
    /\ cbMsg' = Some(msg)
    /\ UNCHANGED <<dbVars, recording, run_id, conOpen, loopAlive, mainPc, mainErr,
                   mainErrs, lastCall, callToggle, lastStarted, cbErrors, cbOutcome>>

\* _on_message, line 131: the transport thread delivers msg and reads
\* self._recording
OnMessageCheck(msg) ==
    /\ loopAlive
    /\ cbPc = "idle"
    /\ delivered < MaxDeliveries
    /\ delivered' = delivered + 1
    /\ IF recording
       THEN /\ cbPc' = "insert"
            /\ cbMsg' = Some(msg)
            /\ UNCHANGED cbOutcome
       ELSE /\ cbOutcome' = "discarded"
            /\ UNCHANGED <<cbPc, cbMsg>>
    /\ UNCHANGED <<dbVars, recording, run_id, conOpen, loopAlive, mainPc, mainErr,
                   mainErrs, lastCall, callToggle, lastStarted, cbErrors>>

\* _on_message, lines 132-137: insert_log_entry(self._con, msg.topic,
\* msg.payload, self._run_id) with self._run_id read now; any exception is
\* caught and logged
OnMessageInsert ==
    /\ cbPc = "insert"
    /\ cbPc' = "idle"
    /\ cbMsg' = None
    /\ IF ~conOpen
       THEN \* con.cursor() on a closed connection
            /\ cbOutcome' = "error"
            /\ cbErrors' = cbErrors \cup {"sqlite3.ProgrammingError"}
            /\ UNCHANGED <<log, warnings>>
       ELSE IF run_id = None
       THEN \* database.py lines 103-104
            /\ cbOutcome' = "error"
            /\ cbErrors' = cbErrors \cup {"ValueError: run_id must be provided."}
            /\ UNCHANGED <<log, warnings>>
       ELSE /\ warnings' = IF The(run_id) \in run_ids(runs) THEN warnings ELSE warnings + 1
            /\ log' = insert_log_entry(log, The(cbMsg).topic, The(cbMsg).payload,
                                       The(run_id), now)
            /\ cbOutcome' = "appended"
            /\ UNCHANGED cbErrors
    /\ UNCHANGED <<runs, now, nStartCalls, lastRet, endCalled, dbErr, dbCall, recording, run_id,
                   conOpen, loopAlive, mainPc, mainErr, mainErrs, lastCall, callToggle,
                   lastStarted, delivered>>

NextRec ==
    \/ Tick /\ UNCHANGED <<recVars, playVars, fnVars>>
    \/ Start /\ UNCHANGED <<playVars, fnVars>>
    \/ StartSetRecording /\ UNCHANGED <<playVars, fnVars>>
    \/ Stop /\ UNCHANGED <<playVars, fnVars>>
    \/ StopClearRunId /\ UNCHANGED <<playVars, fnVars>>
    \/ StopClearRecording /\ UNCHANGED <<playVars, fnVars>>
    \/ StopLoopStop /\ UNCHANGED <<playVars, fnVars>>
    \/ StopCloseCon /\ UNCHANGED <<playVars, fnVars>>
    \/ \E msg \in Messages : OnMessageCheck(msg) /\ UNCHANGED <<playVars, fnVars>>
    \/ OnMessageInsert /\ UNCHANGED <<playVars, fnVars>>

Spec == InitRec /\ [][NextRec]_vars

(***************************************************************************)
(* The Playback: topic patterns, the replay set, the schedule.             *)
(***************************************************************************)
\* mqtt_pattern.replace("+", "%") alone, without .replace("#", "%")
ReplaceWildcards_PlusOnly(pat) ==
    [i \in 1 .. Len(pat) |-> IF pat[i] = "+" THEN "%" ELSE pat[i]]

\* mqtt_pattern.replace("+", "%").replace("#", "%")
ReplaceWildcards(pat) ==
    [i \in 1 .. Len(pat) |-> IF pat[i] \in {"+", "#"} THEN "%" ELSE pat[i]]

\* "%%" in sql_pattern
HasDoubleWildcard(str) ==
    \E i \in 1 .. Len(str) - 1 : str[i] = "%" /\ str[i + 1] = "%"

\* sql_pattern.replace("%%", "%"): one pass, left to right, occurrences that
\* do not overlap
RECURSIVE ReplaceDoubleWildcard(_)
ReplaceDoubleWildcard(str) ==
    IF Len(str) < 2 THEN str
    ELSE IF str[1] = "%" /\ str[2] = "%"
         THEN <<"%">> \o ReplaceDoubleWildcard(SubSeq(str, 3, Len(str)))
         ELSE <<str[1]>> \o ReplaceDoubleWildcard(Tail(str))

\* while "%%" in sql_pattern: sql_pattern = sql_pattern.replace("%%", "%")
RECURSIVE CollapseWildcards(_)
CollapseWildcards(str) ==
    IF HasDoubleWildcard(str) THEN CollapseWildcards(ReplaceDoubleWildcard(str)) ELSE str

\* the translator with one replace("%%", "%") in place of the loop of line 319
mqtt_pattern_to_sql_pattern_OnePass(mqtt_pattern) ==
    IF mqtt_pattern = <<"#">> \/ mqtt_pattern = <<>>
    THEN <<"%">>
    ELSE ReplaceDoubleWildcard(ReplaceWildcards(mqtt_pattern))

mqtt_pattern_to_sql_pattern(mqtt_pattern) ==
    IF mqtt_pattern = <<"#">> \/ mqtt_pattern = <<>>
    THEN <<"%">>
    ELSE CollapseWildcards(ReplaceWildcards(mqtt_pattern))

\* SQLite's LIKE compares ASCII letters without regard to case
Lower(c) == IF c = "T" THEN "t" ELSE c

\* SQLite's  str LIKE pat : % matches any run of characters, the empty one
\* included, _ matches any one character
RECURSIVE Like(_, _)
Like(pat, str) ==
    IF pat = <<>> THEN str = <<>>
    ELSE IF pat[1] = "%"
         THEN Like(Tail(pat), str) \/ (str # <<>> /\ Like(pat, Tail(str)))
         ELSE /\ str # <<>>
              /\ (pat[1] = "_" \/ Lower(pat[1]) = Lower(str[1]))
              /\ Like(Tail(pat), Tail(str))

\* SELECT UNIX_TIME, TOPIC, MESSAGE FROM LOG [WHERE TOPIC LIKE p1 OR TOPIC LIKE p2 ...]
\* in ROWID order, each row as a dict; patterns is None or a list.  This is
\* the result of a well-formed statement; with an empty list the statement
\* ends in " WHERE " and is rejected, see CallRetrieveLogEntries
retrieve_log_entries(lg, patterns) ==
    LET keep(row) == \/ patterns = None
                     \/ \E i \in 1 .. Len(The(patterns)) : Like(The(patterns)[i], row.topic)
        rows == SelectSeq(lg, keep)
    IN  [i \in 1 .. Len(rows) |-> [unix_time |-> rows[i].unix_time,
                                   topic |-> rows[i].topic,
                                   message |-> rows[i].message]]

\* SELECT MIN(UNIX_TIME) FROM LOG: over the whole relation; None (SQL NULL)
\* when LOG is empty
start_time(lg) ==
    IF lg = <<>> THEN None ELSE Some(MinOf({lg[i].unix_time : i \in 1 .. Len(lg)}))

\* rationals [n, d] with d > 0 stand for Python's floats
RatEq(a, b) == a.n * b.d = b.n * a.d

RatLe(a, b) == a.n * b.d <= b.n * a.d

RatSub(a, b) == [n |-> a.n * b.d - b.n * a.d, d |-> a.d * b.d]

\* (log["unix_time"] - start_unix_time) * speed: the division of line 279 turned
\* into a multiplication
scaled_sleep_Times(unix_time, start, spd) ==
    [n |-> (unix_time - start) * spd[1], d |-> spd[2]]

\* line 279: (log["unix_time"] - start_unix_time) / speed, for speed = num/den # 0
scaled_sleep(unix_time, start, spd) ==
    IF spd[1] > 0
    THEN [n |-> (unix_time - start) * spd[2], d |-> spd[1]]
    ELSE [n |-> (start - unix_time) * spd[2], d |-> 0 - spd[1]]

\* asyncio.sleep(delay) with delay <= 0 yields to the loop once and returns
SleepFor(delay) == IF delay.n <= 0 THEN [n |-> 0, d |-> 1] ELSE delay

\* the speeds play() is called with: -1, 0, 1/2, 1, 2 and 5
Speeds == {<<0 - 1, 1>>, <<0, 1>>, <<1, 2>>, <<1, 1>>, <<2, 1>>, <<5, 1>>}

\* the topics arguments a Playback is constructed with; ["#"] is the default
TopicArgs ==
    { << <<"#">> >>,
      << <<"t", "/", "2">> >>,
      << <<"+", "/", "1">>, <<"t", "/", "1">> >> }

\* LOG rows a store may hold when a Playback opens it
LogRows(maxStamp) ==
    [run_id : {1}, unix_time : 0 .. maxStamp, topic : Topics, message : {"x"}]

\* Playback.__init__, lines 214-226, on a store that holds up to MaxEntries rows
PlaybackConstructed(maxStamp) ==
    /\ runs = [id \in {1} |-> [start |-> 0, end |-> Some(maxStamp)]]
    /\ log \in UNION {[1 .. n -> LogRows(maxStamp)] : n \in 0 .. MaxEntries}
    /\ now = maxStamp
    /\ nStartCalls = 0
    /\ lastRet = None
    /\ endCalled = {}
    /\ dbErr = ""
    /\ warnings = 0
    /\ dbCall = NoCall
    /\ pbTopics \in TopicArgs
    /\ log_data = retrieve_log_entries(
                      log, Some([i \in 1 .. Len(pbTopics) |->
                                    mqtt_pattern_to_sql_pattern(pbTopics[i])]))
    /\ publish_task = "None"
    /\ cancelRequested = FALSE
    /\ tasks = <<>>
    /\ start_unix_time = None
    /\ speed = <<1, 1>>
    /\ playPc = "idle"
    /\ playResult = ""
    /\ nPlays = 0
    /\ published = <<>>
    /\ pubErrors = 0
    /\ stopResult = ""
    /\ stoppedInFlight = FALSE

(***************************************************************************)
(* play() blocks its caller inside asyncio.run until _publish returns;     *)
(* stop() is therefore called from another thread, at any moment.          *)
(***************************************************************************)
\* play(speed), lines 258-261: asyncio.run starts the loop and _publish
Play(spd) ==
    /\ playPc = "idle"
    /\ nPlays < MaxPlays
    /\ nPlays' = nPlays + 1
    /\ speed' = spd
    /\ playPc' = "publish_276"
    /\ playResult' = ""
    /\ published' = <<>>
    /\ pubErrors' = 0
    /\ stoppedInFlight' = FALSE
    /\ UNCHANGED <<pbTopics, log_data, publish_task, cancelRequested, tasks,
                   start_unix_time, stopResult>>

\* _publish, lines 276-291: start_time, one _publish_aux coroutine per entry,
\* asyncio.gather wraps each in a task and the future is stored; gather of no
\* coroutine returns a future that is already done
PublishGather ==
    /\ playPc = "publish_276"
    /\ start_unix_time' = start_time(log)
    /\ tasks' = [i \in 1 .. Len(log_data) |-> [state |-> "created", delay |-> [n |-> 0, d |-> 1]]]
    /\ publish_task' = IF log_data = <<>> THEN "done" ELSE "pending"
    /\ cancelRequested' = FALSE
    /\ playPc' = "await_294"
    /\ UNCHANGED <<pbTopics, log_data, speed, playResult, nPlays, published,
                   pubErrors, stopResult, stoppedInFlight>>

\* _publish_aux, lines 279-280: the loop starts the tasks in creation order;
\* each computes its delay and sleeps, or dies of ZeroDivisionError, which
\* gather(return_exceptions=True) keeps as the task's result
TaskStart(i) ==
    /\ playPc = "await_294"
    /\ i \in 1 .. Len(tasks)
    /\ tasks[i].state = "created"
    /\ \A j \in 1 .. i - 1 : tasks[j].state # "created"
    /\ tasks' = [tasks EXCEPT ![i] =
                    IF speed[1] = 0
                    THEN [state |-> "raised", delay |-> [n |-> 0, d |-> 1]]
                    ELSE [state |-> "sleeping",
                          delay |-> scaled_sleep(log_data[i].unix_time,
                                                 The(start_unix_time), speed)]]
    /\ UNCHANGED <<pbTopics, log_data, publish_task, cancelRequested,
                   start_unix_time, speed, playPc, playResult, nPlays, published,
                   pubErrors, stopResult, stoppedInFlight>>

\* _publish_aux without the sleep of line 280: a task publishes as soon as
\* the loop runs it again, whatever its delay
TaskPublish_NoSleep(i, ok) ==
    /\ playPc = "await_294"
    /\ i \in 1 .. Len(tasks)
    /\ tasks[i].state = "sleeping"
    /\ \A j \in 1 .. Len(tasks) : tasks[j].state # "created"
    /\ tasks' = [tasks EXCEPT ![i].state = "done"]
    /\ IF ok
       THEN /\ published' = Append(published, [topic |-> log_data[i].topic,
                                               message |-> log_data[i].message])
            /\ UNCHANGED pubErrors
       ELSE /\ pubErrors' = pubErrors + 1
            /\ UNCHANGED published
    /\ UNCHANGED <<pbTopics, log_data, publish_task, cancelRequested,
                   start_unix_time, speed, playPc, playResult, nPlays,
                   stopResult, stoppedInFlight>>

\* _publish_aux without the try / except of lines 282-287: an exception of
\* publish ends the task and becomes its result in the gather future
TaskPublish_NoTry(i, ok) ==
    /\ playPc = "await_294"
    /\ i \in 1 .. Len(tasks)
    /\ tasks[i].state = "sleeping"
    /\ \A j \in 1 .. Len(tasks) :
          /\ tasks[j].state # "created"
          /\ tasks[j].state = "sleeping"
                => RatLe(SleepFor(tasks[i].delay), SleepFor(tasks[j].delay))
    /\ tasks' = [tasks EXCEPT ![i].state = IF ok THEN "done" ELSE "raised"]
    /\ published' = IF ok
                    THEN Append(published, [topic |-> log_data[i].topic,
                                            message |-> log_data[i].message])
                    ELSE published
    /\ UNCHANGED <<pbTopics, log_data, publish_task, cancelRequested,
                   start_unix_time, speed, playPc, playResult, nPlays,
                   pubErrors, stopResult, stoppedInFlight>>

\* _publish_aux, lines 282-287: the sleep of task i is over, no sooner than a
\* shorter sleep; self._client.publish succeeds, or raises and is logged
TaskPublish(i, ok) ==
    /\ playPc = "await_294"
    /\ i \in 1 .. Len(tasks)
    /\ tasks[i].state = "sleeping"
    /\ \A j \in 1 .. Len(tasks) :
          /\ tasks[j].state # "created"
          /\ tasks[j].state = "sleeping"
                => RatLe(SleepFor(tasks[i].delay), SleepFor(tasks[j].delay))
    /\ tasks' = [tasks EXCEPT ![i].state = "done"]
    /\ IF ok
       THEN /\ published' = Append(published, [topic |-> log_data[i].topic,
                                               message |-> log_data[i].message])
            /\ UNCHANGED pubErrors
       ELSE /\ pubErrors' = pubErrors + 1
            /\ UNCHANGED published
    /\ UNCHANGED <<pbTopics, log_data, publish_task, cancelRequested,
                   start_unix_time, speed, playPc, playResult, nPlays,
                   stopResult, stoppedInFlight>>

\* _publish returning without awaiting the gather future (no line 294)
PublishReturn_NoAwait ==
    /\ playPc = "await_294"
    /\ publish_task' = IF cancelRequested THEN "cancelled" ELSE "done"
    /\ playResult' = IF cancelRequested THEN "returned: Playback stopped" ELSE "returned"
    /\ playPc' = "idle"
    /\ UNCHANGED <<pbTopics, log_data, cancelRequested, tasks, start_unix_time,
                   speed, nPlays, published, pubErrors, stopResult, stoppedInFlight>>

\* _publish, lines 293-296: every task has finished, the gather future
\* completes; it raises CancelledError if a cancel was requested, which is
\* caught and logged ("Playback stopped"); play() returns
PublishReturn ==
    /\ playPc = "await_294"
    /\ \A j \in 1 .. Len(tasks) : tasks[j].state \in {"done", "raised", "cancelled"}
    /\ publish_task' = IF cancelRequested THEN "cancelled" ELSE "done"
    /\ playResult' = IF cancelRequested THEN "returned: Playback stopped" ELSE "returned"
    /\ playPc' = "idle"
    /\ UNCHANGED <<pbTopics, log_data, cancelRequested, tasks, start_unix_time,
                   speed, nPlays, published, pubErrors, stopResult, stoppedInFlight>>

\* stop(), line 265: self._publish_task.cancel().  None has no cancel; a
\* future that is done refuses; a pending gather future cancels each child
\* that has not finished and remembers the request if any child accepted
PlaybackStop ==
    /\ stoppedInFlight' = (stoppedInFlight \/ playPc # "idle")
    /\ IF publish_task = "None"
       THEN /\ stopResult' = "AttributeError"
            /\ UNCHANGED <<tasks, cancelRequested>>
       ELSE IF publish_task # "pending"
       THEN /\ stopResult' = "cancel() = False"
            /\ UNCHANGED <<tasks, cancelRequested>>
       ELSE /\ tasks' = [j \in 1 .. Len(tasks) |->
                           IF tasks[j].state \in {"created", "sleeping"}
                           THEN [tasks[j] EXCEPT !.state = "cancelled"]
                           ELSE tasks[j]]
            /\ cancelRequested' =
                  (cancelRequested
                   \/ \E j \in 1 .. Len(tasks) : tasks[j].state \in {"created", "sleeping"})
            /\ stopResult' =
                  IF \E j \in 1 .. Len(tasks) : tasks[j].state \in {"created", "sleeping"}
                  THEN "cancel() = True" ELSE "cancel() = False"
    /\ UNCHANGED <<pbTopics, log_data, publish_task, start_unix_time, speed,
                   playPc, playResult, nPlays, published, pubErrors>>

\* the schedule alone: play() up to the point where every task sleeps
InitSched ==
    /\ PlaybackConstructed(MaxStamp)
    /\ RecorderConstructed
    /\ NoSchema /\ NoTranslation /\ NoQuery

NextSched ==
    \/ \E spd \in Speeds : Play(spd) /\ UNCHANGED <<dbVars, recVars, fnVars>>
    \/ PublishGather /\ UNCHANGED <<dbVars, recVars, fnVars>>
    \/ \E i \in 1 .. MaxEntries : TaskStart(i) /\ UNCHANGED <<dbVars, recVars, fnVars>>

SpecSched == InitSched /\ [][NextSched]_vars

\* the replay with stop() racing it
InitPlay ==
    /\ PlaybackConstructed(MaxPlayStamp)
    /\ RecorderConstructed
    /\ NoSchema /\ NoTranslation /\ NoQuery

NextPlay ==
    \/ \E spd \in Speeds : Play(spd) /\ UNCHANGED <<dbVars, recVars, fnVars>>
    \/ PublishGather /\ UNCHANGED <<dbVars, recVars, fnVars>>
    \/ \E i \in 1 .. MaxEntries : TaskStart(i) /\ UNCHANGED <<dbVars, recVars, fnVars>>
    \/ \E i \in 1 .. MaxEntries, ok \in BOOLEAN :
          TaskPublish(i, ok) /\ UNCHANGED <<dbVars, recVars, fnVars>>
    \/ PublishReturn /\ UNCHANGED <<dbVars, recVars, fnVars>>
    \/ PlaybackStop /\ UNCHANGED <<dbVars, recVars, fnVars>>

SpecPlay == InitPlay /\ [][NextPlay]_vars

\* a step of the event loop that asyncio.run (line 261) runs on the caller's
\* thread: _publish up to its await, a task started, a sleep that ends and its
\* publish, the gather future completing
LoopStep ==
    \/ PublishGather /\ UNCHANGED <<dbVars, recVars, fnVars>>
    \/ \E i \in 1 .. MaxEntries : TaskStart(i) /\ UNCHANGED <<dbVars, recVars, fnVars>>
    \/ \E i \in 1 .. MaxEntries, ok \in BOOLEAN :
          TaskPublish(i, ok) /\ UNCHANGED <<dbVars, recVars, fnVars>>
    \/ PublishReturn /\ UNCHANGED <<dbVars, recVars, fnVars>>

\* the loop does not halt while it has a step to take; when play() and stop()
\* are called is up to the caller
LoopFairness == WF_vars(LoopStep)

\* the replay without any stop(): play() is called, the loop runs
NextReplay ==
    \/ \E spd \in Speeds : Play(spd) /\ UNCHANGED <<dbVars, recVars, fnVars>>
    \/ LoopStep

SpecReplayFair == InitPlay /\ [][NextReplay]_vars /\ LoopFairness

(***************************************************************************)
(* _mqtt_pattern_to_sql_pattern called on its own, on every string of up   *)
(* to MaxPatternLen characters over PatternChars.                          *)
(***************************************************************************)
\* topic level characters, the level separator, the two MQTT wildcards and
\* the SQL wildcard
PatternChars == {"a", "c", "/", "+", "#", "%"}

MqttPatterns == UNION {[1 .. n -> PatternChars] : n \in 0 .. MaxPatternLen}

InitTranslate ==
    /\ tPattern \in MqttPatterns
    /\ tResult = None
    /\ EmptyStore
    /\ RecorderConstructed
    /\ NoPlayback
    /\ NoSchema /\ NoQuery

CallTranslate ==
    /\ tResult = None
    /\ tResult' = Some(mqtt_pattern_to_sql_pattern(tPattern))
    /\ UNCHANGED tPattern

NextTranslate ==
    CallTranslate /\ UNCHANGED <<dbVars, recVars, playVars, schemaVars, queryVars>>

SpecTranslate == InitTranslate /\ [][NextTranslate]_vars

(***************************************************************************)
(* retrieve_log_entries called on its own on a recorded store.             *)
(***************************************************************************)
\* LIKE patterns a caller may pass
SqlPatterns == {<<"%">>, <<"t", "/", "1">>, <<"t", "/", "%">>, <<"%", "/", "2">>}

\* the patterns argument: None, or a list of up to MaxFilters patterns, the
\* empty list included
PatternArgs ==
    {None} \cup {Some(l) : l \in UNION {[1 .. n -> SqlPatterns] : n \in 0 .. MaxFilters}}

InitQuery ==
    /\ PlaybackConstructed(MaxPlayStamp)
    /\ RecorderConstructed
    /\ NoSchema /\ NoTranslation /\ NoQuery

\* lines 123-126 build the statement; with patterns = [] it is
\* "SELECT ... FROM LOG WHERE ", which cur.execute (line 135) rejects
CallRetrieveLogEntries(arg) ==
    /\ qPatterns' = arg
    /\ IF arg # None /\ The(arg) = <<>>
       THEN /\ qErr' = "sqlite3.OperationalError"
            /\ qResult' = None
       ELSE /\ qErr' = ""
            /\ qResult' = Some(retrieve_log_entries(log, arg))

NextQuery ==
    \E arg \in PatternArgs :
        CallRetrieveLogEntries(arg)
        /\ UNCHANGED <<dbVars, recVars, playVars, schemaVars, translateVars>>

SpecQuery == InitQuery /\ [][NextQuery]_vars

(***************************************************************************)
(* Claims about the Recorder, checked under Spec.                          *)
(***************************************************************************)
\* the Recorder is in state Recording: start() has returned, no stop() has begun
Recording == recording /\ mainPc = "idle"

\* C1: while the Recorder is Recording, the message a callback handles is
\* appended as exactly one LOG row carrying the run id the most recent start()
\* obtained, the delivered topic and the delivered payload, and no error is
\* logged; LOG grows in no other step; a message delivered while the recording
\* flag is off is discarded on the spot: no row, no error.
C1_RecordingAppendsElseDiscards ==
    [][ /\ (cbPc = "insert" /\ cbPc' = "idle" /\ Recording)
            => /\ log' = Append(log, [run_id |-> The(lastStarted),
                                      unix_time |-> now,
                                      topic |-> The(cbMsg).topic,
                                      message |-> The(cbMsg).payload])
               /\ cbOutcome' = "appended"
               /\ cbErrors' = cbErrors
        /\ (delivered' # delivered /\ recording)
            => /\ cbPc' = "insert"
               /\ cbMsg' \in {Some(m) : m \in Messages}
               /\ log' = log
        /\ (delivered' # delivered /\ ~recording)
            => /\ log' = log
               /\ cbPc' = "idle"
               /\ cbOutcome' = "discarded"
               /\ cbErrors' = cbErrors
        /\ (log' # log) => (cbPc = "insert" /\ Len(log') = Len(log) + 1)
      ]_vars

\* C1 witness: one message was appended under the run of the latest start()
\* of a reused store, and a later message, delivered after stop() had cleared
\* the recording flag, was discarded without an error.
C1_Witness ==
    /\ Len(log) = 1
    /\ log[1].run_id = 2
    /\ lastStarted = Some(2)
    /\ delivered = 2
    /\ cbOutcome = "discarded"
    /\ cbErrors = {}

\* C2: whatever the interleaving of stop() with a running callback, the
\* callback never attempts an append with an absent run identifier
\* (insert_log_entry called with None) nor on a closed connection.
C2_StopNeverRacesCallback ==
    /\ "ValueError: run_id must be provided." \notin cbErrors
    /\ "sqlite3.ProgrammingError" \notin cbErrors

\* C3: start() called while recording raises the already-recording error,
\* inserts no run and leaves the flag and the run id as they were; stop()
\* called while not recording raises the not-recording error and changes no
\* run (sets no end timestamp).
C3_MisuseRejected ==
    [][ /\ (callToggle' # callToggle /\ lastCall' = "start" /\ recording)
            => /\ mainErr' = "RuntimeError: Already recording, please stop first"
               /\ runs' = runs
               /\ recording'
               /\ run_id' = run_id
               /\ mainPc' = "idle"
        /\ (callToggle' # callToggle /\ lastCall' = "stop" /\ ~recording)
            => /\ mainErr' = "RuntimeError: Not recording, please start first"
               /\ runs' = runs
               /\ ~recording'
               /\ mainPc' = "idle"
      ]_vars

\* C3 witness: both misuses have happened: start() while recording, and
\* stop() after the Recorder had been stopped.
C3_Witness ==
    /\ "RuntimeError: Already recording, please stop first" \in mainErrs
    /\ mainErr = "RuntimeError: Not recording, please start first"
    /\ ~conOpen
    /\ \E r \in DOMAIN runs : r = The(lastStarted) /\ runs[r].end # None

\* C21: under any interleaving of start(), stop() and the callbacks, every
\* LOG row written under run r was written while r was active: its timestamp
\* is not earlier than the start timestamp of r and, once r has an end
\* timestamp, not later than it.
C21_EntriesWithinTheirRun ==
    \A k \in 1 .. Len(log) :
        /\ log[k].run_id \in DOMAIN runs
        /\ runs[log[k].run_id].start <= log[k].unix_time
        /\ runs[log[k].run_id].end # None
              => log[k].unix_time <= The(runs[log[k].run_id].end)

\* the runs of the store that have no end timestamp
OpenRuns == {r \in DOMAIN runs : runs[r].end = None}

\* C22: whenever no start() or stop() call is in progress, the recording
\* flag is set exactly when the Recorder holds a run id, and that run id then
\* names a run of the store without end timestamp; the Recorder never has
\* more than one run without end timestamp.
C22_FlagMatchesRunId ==
    /\ mainPc = "idle"
          => /\ recording <=> run_id # None
             /\ recording => /\ The(run_id) \in DOMAIN runs
                             /\ runs[The(run_id)].end = None
    /\ Cardinality(OpenRuns) <= 1

\* C22 witness: on a store with an earlier, finished run, start() has
\* returned: the flag is set, the Recorder holds run id 2, run 2 is the one
\* open run, and a message has been logged under it.
C22_Witness ==
    /\ mainPc = "idle"
    /\ recording
    /\ run_id = Some(2)
    /\ OpenRuns = {2}
    /\ runs[1].end # None
    /\ Len(log) = 1

(***************************************************************************)
(* Claims about the Playback, checked under SpecPlay and SpecSched.        *)
(***************************************************************************)
\* play() has returned to its caller without raising
PlayReturnedNormally ==
    /\ nPlays > 0
    /\ playPc = "idle"
    /\ playResult \in {"returned", "returned: Playback stopped"}

\* timestamps of the replay set
ReplayStamps == {log_data[i].unix_time : i \in 1 .. Len(log_data)}

\* C4: once stop() has been called while a play() is in flight, no emission
\* of that play() publishes any more (what was published stays published),
\* and the play() returns normally.
C4_StopPreventsLaterEmissions ==
    [][ (stoppedInFlight /\ playPc # "idle")
            => /\ \A k \in 1 .. Len(published) :
                     k <= Len(published') /\ published'[k] = published[k]
               /\ Len(published') = Len(published)
               /\ playPc' = "idle"
                     => playResult' \in {"returned", "returned: Playback stopped"}
      ]_vars

\* C5: the epoch play() uses is the earliest timestamp of the replay set,
\* also under topic filters, so the earliest entry of the replay set sleeps
\* for 0.
C5_EpochIsReplaySetMinimum ==
    (playPc = "await_294" /\ log_data # <<>>)
        => /\ start_unix_time = Some(MinOf(ReplayStamps))
           /\ \A i \in 1 .. Len(tasks) :
                 (tasks[i].state = "sleeping" /\ log_data[i].unix_time = MinOf(ReplayStamps))
                     => tasks[i].delay.n = 0

\* C6: for speed > 0 the delays of any two entries differ by the difference
\* of their timestamps divided by speed; at speed 1 delays differ exactly as
\* the timestamps do, at speed 2 every delay is half of (timestamp - epoch),
\* its value at speed 1, and at speed 5 entries 5 apart sleep 1 apart.
C6_OffsetsScaleWithSpeed ==
    (playPc = "await_294" /\ speed[1] > 0)
        => \A i, j \in 1 .. Len(tasks) :
              (tasks[i].state = "sleeping" /\ tasks[j].state = "sleeping")
                  => LET ti == log_data[i].unix_time
                         tj == log_data[j].unix_time
                         diff == RatSub(tasks[i].delay, tasks[j].delay)
                     IN  /\ RatEq(diff, [n |-> (ti - tj) * speed[2], d |-> speed[1]])
                         /\ speed = <<1, 1>> => RatEq(diff, [n |-> ti - tj, d |-> 1])
                         /\ speed = <<2, 1>>
                               => RatEq(tasks[i].delay,
                                        [n |-> ti - The(start_unix_time), d |-> 2])
                         /\ (speed = <<5, 1>> /\ ti - tj = 5)
                               => RatEq(diff, [n |-> 1, d |-> 1])

\* C6 witness: at speed 5 two entries captured 5 apart sleep 0 and 1.
C6_Witness ==
    /\ playPc = "await_294"
    /\ speed = <<5, 1>>
    /\ Len(tasks) = 2
    /\ tasks[1].state = "sleeping"
    /\ tasks[2].state = "sleeping"
    /\ log_data[2].unix_time - log_data[1].unix_time = 5
    /\ RatEq(tasks[1].delay, [n |-> 0, d |-> 1])
    /\ RatEq(tasks[2].delay, [n |-> 1, d |-> 1])

\* C7: a play() on an empty replay set does not return normally, and
\* publishes nothing.
C7_EmptyReplaySetRejected ==
    (nPlays > 0 /\ playPc = "idle" /\ log_data = <<>>)
        => (~PlayReturnedNormally /\ published = <<>>)

\* C8: a play(speed) with speed <= 0 does not return normally, whatever the
\* replay set (stated here for the replay sets that hold an entry; the empty
\* one is the case of C7).
C8_NonPositiveSpeedRejected ==
    (nPlays > 0 /\ playPc = "idle" /\ speed[1] <= 0 /\ log_data # <<>>)
        => ~PlayReturnedNormally

\* the latest play() had speed > 0 and a non-empty replay set, and no stop()
\* has been called since it was called
UninterruptedPlay ==
    /\ nPlays > 0
    /\ speed[1] > 0
    /\ log_data # <<>>
    /\ ~stoppedInFlight

\* how many times v occurs in seq
Count(seq, v) == Cardinality({k \in 1 .. Len(seq) : seq[k] = v})

\* the entry of the replay set as it is published
Emission(entry) == [topic |-> entry.topic, message |-> entry.message]

\* C17, its state part.  In an uninterrupted play(speed > 0): no entry is
\* published while another one's task has yet to be started (the emissions
\* run side by side, none waits for another to finish); no entry is published
\* more often than it is in the replay set; and when play() has returned
\* every task has finished and, no publish having failed, what was published
\* is the replay set, each entry once.
C17_State ==
    UninterruptedPlay =>
        /\ (published # <<>> \/ pubErrors > 0)
              => \A j \in 1 .. Len(tasks) : tasks[j].state # "created"
        /\ playPc = "await_294" /\ (\A j \in 1 .. Len(tasks) : tasks[j].state # "created")
              => \A j \in 1 .. Len(tasks) :
                    tasks[j].state = "sleeping" \/ tasks[j].state = "done"
        /\ \A i \in 1 .. Len(log_data) :
              Count(published, Emission(log_data[i]))
                 <= Count([k \in 1 .. Len(log_data) |-> Emission(log_data[k])],
                          Emission(log_data[i]))
        /\ playPc = "idle"
              => /\ playResult = "returned"
                 /\ Len(tasks) = Len(log_data)
                 /\ \A j \in 1 .. Len(tasks) : tasks[j].state = "done"
                 /\ Len(published) + pubErrors = Len(log_data)
                 /\ pubErrors = 0
                       => \A i \in 1 .. Len(log_data) :
                             Count(published, Emission(log_data[i]))
                                = Count([k \in 1 .. Len(log_data) |-> Emission(log_data[k])],
                                        Emission(log_data[i]))

\* C17: an uninterrupted play(speed > 0) on a non-empty replay set runs its
\* emissions concurrently, publishes every entry exactly once, returns only
\* after every emission has completed (C17_State), and returns eventually.
C17_UninterruptedPlayCompletes ==
    /\ []C17_State
    /\ (UninterruptedPlay /\ playPc # "idle")
          ~> (playPc = "idle" \/ stoppedInFlight)

\* C17 witness: a play() of two entries with different timestamps was never
\* stopped, has returned, and both entries were published.
C17_Witness ==
    /\ UninterruptedPlay
    /\ playPc = "idle"
    /\ playResult = "returned"
    /\ Len(log_data) = 2
    /\ log_data[1].unix_time # log_data[2].unix_time
    /\ Len(published) = 2
    /\ pubErrors = 0

\* the step in which the publish of task i fails: its sleep ends, the task
\* is not cancelled, and nothing is published
PublishFails(i) ==
    /\ playPc = "await_294"
    /\ i \in 1 .. Len(tasks)
    /\ tasks[i].state = "sleeping"
    /\ tasks'[i].state \notin {"sleeping", "cancelled"}
    /\ published' = published

\* C18: a publish that fails is caught and logged for its entry alone: the
\* task of that entry ends, every other task stays as it was (still asleep
\* for its own delay, to publish when that is over), _publish goes on
\* awaiting; and a play() in which publishes failed, and which no stop()
\* interrupted, returns normally with every other entry published.
C18_PublishFailureIsLocal ==
    /\ [][\A i \in 1 .. MaxEntries :
             PublishFails(i)
                => /\ tasks'[i].state = "done"
                   /\ pubErrors' = pubErrors + 1
                   /\ \A j \in 1 .. Len(tasks) : j # i => tasks'[j] = tasks[j]
                   /\ Len(tasks') = Len(tasks)
                   /\ playPc' = playPc
                   /\ playResult' = playResult
                   /\ publish_task' = publish_task
                   /\ cancelRequested' = cancelRequested]_vars
    /\ []((nPlays > 0 /\ playPc = "idle" /\ ~stoppedInFlight /\ speed[1] # 0)
            => /\ playResult = "returned"
               /\ \A j \in 1 .. Len(tasks) : tasks[j].state = "done"
               /\ Len(published) = Len(log_data) - pubErrors)

\* C18 witness: of two entries with different topics and timestamps the
\* publish of the earlier one failed; the later one was published and
\* play() returned normally.
C18_Witness ==
    /\ playPc = "idle"
    /\ playResult = "returned"
    /\ ~stoppedInFlight
    /\ speed[1] > 0
    /\ Len(log_data) = 2
    /\ log_data[1].unix_time < log_data[2].unix_time
    /\ log_data[1].topic # log_data[2].topic
    /\ pubErrors = 1
    /\ published = <<Emission(log_data[2])>>

C23_StopNeverRaises ==
    /\ [](stopResult # "AttributeError")
    /\ [][(playPc = "idle" /\ playPc' = "idle")
             => UNCHANGED <<log_data, publish_task, cancelRequested, tasks,
                            published, pubErrors, playResult>>]_vars
    /\ []((UninterruptedPlay /\ playPc = "idle" /\ pubErrors = 0)
            => Len(published) = Len(log_data))

(***************************************************************************)
(* Claims about the store, checked under SpecDb.                           *)
(***************************************************************************)
\* C9: on a store that starts empty the k-th start_run_entry returns k,
\* whatever stop_run_entry and insert_log_entry calls come in between; the
\* run ids are 1 .. k.
C9_KthRunIdIsK ==
    /\ nStartCalls > 0 => lastRet = Some(nStartCalls)
    /\ DOMAIN runs = 1 .. nStartCalls

\* C9 witness: the second start_run_entry returned 2 after a stop_run_entry
\* and an insert_log_entry.
C9_Witness ==
    /\ nStartCalls = 2
    /\ lastRet = Some(2)
    /\ Len(log) = 1
    /\ endCalled = {1}

\* C10: a run's end timestamp is absent exactly until stop_run_entry has run
\* for it, and present in every state after that.
C10_EndSetByStopAndKept ==
    \A r \in DOMAIN runs : (runs[r].end = None) <=> (r \notin endCalled)

\* C10 witness: run 1 was stopped at time 0 and still has that end timestamp
\* at time 1, while run 2 has never been stopped and has none.
C10_Witness ==
    /\ DOMAIN runs = {1, 2}
    /\ endCalled = {1}
    /\ runs[1].end = Some(0)
    /\ runs[2].end = None
    /\ now = 1

\* C11: a run's end timestamp, once set, is never overwritten: every step
\* from a state in which run r has an end timestamp, a further
\* stop_run_entry(r) at a later time included, leaves that timestamp as it is.
C11_EndNeverOverwritten ==
    [][\A r \in DOMAIN runs :
          runs[r].end # None => runs'[r].end = runs[r].end]_vars

\* C12: insert_log_entry with a run id that is not among the store's run ids
\* still appends the row (that run id, topic and message, stamped now),
\* logs one warning, raises nothing and creates no run.
C12_OrphanInsertPersistsAndWarns ==
    [][(/\ dbCall' # dbCall \/ log' # log
        /\ dbCall'.op = "insert_log_entry"
        /\ dbCall'.run_id # None
        /\ The(dbCall'.run_id) \notin run_ids(runs))
       => /\ log' = Append(log, [run_id |-> The(dbCall'.run_id),
                                 unix_time |-> now,
                                 topic |-> dbCall'.topic,
                                 message |-> dbCall'.message])
          /\ warnings' = warnings + 1
          /\ dbErr' = ""
          /\ runs' = runs]_vars

\* C12 witness: run 1 exists, the latest call inserted a row for run 2, which
\* does not exist; the row is stored, one warning was logged, no error raised.
C12_Witness ==
    /\ run_ids(runs) = {1}
    /\ dbCall.op = "insert_log_entry"
    /\ dbCall.run_id = Some(2)
    /\ Len(log) = 1
    /\ log[1].run_id = 2
    /\ log[1].topic = dbCall.topic
    /\ log[1].message = dbCall.message
    /\ warnings = 1
    /\ dbErr = ""

C13_TablesExistTogether ==
    schemaCall = "tables_exist" =>
        LET hasLog == "LOG" \in tables
            hasRun == "RUN" \in tables
        IN  /\ existsRet = Some(TRUE) <=> (hasLog /\ hasRun)
            /\ existsRet = Some(FALSE) <=> (~hasLog /\ ~hasRun)
            /\ schemaErr = "RuntimeError" <=> (hasLog /\ ~hasRun) \/ (hasRun /\ ~hasLog)
            /\ schemaErr = "" <=> existsRet # None

\* C13 witness: with RUN and an unrelated table but no LOG, the latest
\* tables_exist raised RuntimeError and returned nothing.
C13_Witness ==
    /\ tables = {"RUN", "rand"}
    /\ schemaCall = "tables_exist"
    /\ schemaErr = "RuntimeError"
    /\ existsRet = None

(***************************************************************************)
(* Claims about the pattern translator, checked under SpecTranslate.       *)
(***************************************************************************)
\* the translation the specification describes: "#" and "" give "%"; else
\* each '+' and '#' becomes '%', and of every run of '%' only the first is kept
TranslateReference(p) ==
    IF p = <<"#">> \/ p = <<>>
    THEN <<"%">>
    ELSE LET sub == [i \in 1 .. Len(p) |-> IF p[i] = "+" \/ p[i] = "#" THEN "%" ELSE p[i]]
             first == {i \in 1 .. Len(p) : sub[i] # "%" \/ i = 1 \/ sub[i - 1] # "%"}
             nth(k) == CHOOSE i \in first : Cardinality({j \in first : j <= i}) = k
         IN  [k \in 1 .. Cardinality(first) |-> sub[nth(k)]]

\* C14: for every input string the translator returns the reference
\* translation ("#" and "" give "%"; otherwise '+' and '#' become '%' and
\* runs of '%' collapse to one, other characters unchanged); "a/+/c" gives
\* "a/%/c", "a/#" gives "a/%", and no output has two adjacent '%'.
C14_TranslatorEqualsReference ==
    tResult # None =>
        /\ The(tResult) = TranslateReference(tPattern)
        /\ \A i \in 1 .. Len(The(tResult)) - 1 :
              ~(The(tResult)[i] = "%" /\ The(tResult)[i + 1] = "%")
        /\ tPattern = <<"a", "/", "+", "/", "c">>
              => The(tResult) = <<"a", "/", "%", "/", "c">>
        /\ tPattern = <<"a", "/", "#">> => The(tResult) = <<"a", "/", "%">>
        /\ tPattern \in {<<"#">>, <<>>} => The(tResult) = <<"%">>

\* C14 witness: "+#%/a" was translated to "%/a": three adjacent wildcards,
\* which take two passes of the loop, became one.
C14_Witness ==
    /\ tPattern = <<"+", "#", "%", "/", "a">>
    /\ tResult = Some(<<"%", "/", "a">>)

\* C15, as stated: the translation of "+/#" is "%", not "%/%".
C15_SeparatedWildcardsCollapsed ==
    (tPattern = <<"+", "/", "#">> /\ tResult # None) => The(tResult) = <<"%">>

\* the characters of str that are not in the set skip, in order
Without(str, skip) ==
    LET kept(ch) == ch \notin skip
    IN  SelectSeq(str, kept)

\* C15, amended: only wildcards directly next to each other are collapsed.
\* "+/#" gives "%/%", the '/' between the two wildcards is kept, while "+#"
\* gives "%"; in general every character that is not a wildcard is kept, in
\* order.
C15_SeparatedWildcardsKept ==
    tResult # None =>
        /\ tPattern = <<"+", "/", "#">> => The(tResult) = <<"%", "/", "%">>
        /\ tPattern = <<"+", "#">> => The(tResult) = <<"%">>
        /\ Without(The(tResult), {"%"}) = Without(tPattern, {"+", "#", "%"})

\* C15 witness: "+/#" was translated to "%/%".
C15_Witness ==
    /\ tPattern = <<"+", "/", "#">>
    /\ tResult = Some(<<"%", "/", "%">>)

(***************************************************************************)
(* Claims about retrieve_log_entries, checked under SpecQuery.             *)
(***************************************************************************)
\* the rows of LOG whose topic matches at least one of the filters (every
\* row when the filters are absent), each once, in insertion order
MatchingRows(filters) ==
    LET idx == {i \in 1 .. Len(log) :
                   \/ filters = None
                   \/ \E f \in 1 .. Len(The(filters)) : Like(The(filters)[f], log[i].topic)}
        nth(k) == CHOOSE i \in idx : Cardinality({j \in idx : j <= i}) = k
    IN  [k \in 1 .. Cardinality(idx) |-> [unix_time |-> log[nth(k)].unix_time,
                                          topic |-> log[nth(k)].topic,
                                          message |-> log[nth(k)].message]]

\* C16: retrieve_log_entries returns every stored entry when the filters are
\* absent, and with a list of filters exactly the entries whose topic matches
\* at least one filter, each once, in insertion order.
C16_QueryReturnsMatchingRows ==
    (qResult # None \/ qErr # "") =>
        /\ qErr = ""
        /\ qResult = Some(MatchingRows(qPatterns))

====
